---- MODULE Spec2Model ----
(***************************************************************************)
(* A model of src/src/collector.py: the guild "Last login" collector.      *)
(*                                                                         *)
(* Strings are TLA+ strings handled character by character (Len, SubSeq,   *)
(* \o), so that strip(), the regular expressions, the colon split, the     *)
(* date parse and the timestamp formatting are computed, not assumed.      *)
(* An optional value (Python's None or a value) is <<>> or <<v>>.          *)
(***************************************************************************)
EXTENDS Integers, Sequences, FiniteSets, TLC

VARIABLES
    pc,             \* position of main(): idle, load, guild, focus, loop, persist, append, exited
    exit_reason,    \* how the last run of main() ended
    runs,           \* number of runs of main() started so far
    now,            \* the last instant read from the clock, in ticks
    dirs_exist,     \* DATA_DIR and SNAP_DIR exist
    snapshots,      \* the files of SNAP_DIR: file name -> document
    history,        \* HISTORY_FILE: <<>> when it does not exist, <<rows>> when it does
    players_status, \* what load_target_players found at PLAYERS_FILE in this run
    target,         \* main's target
    guild_status,   \* what the GET of the guild page gave in this run
    member_links,   \* main's member_links (a function name -> URL)
    profile_base,   \* main's profile_base (optional)
    focus,          \* main's focus (a sorted sequence of names)
    idx,            \* position of the for loop over focus
    rows,           \* main's rows
    fetch_failed,   \* per element of rows: fetch_last_login raised
    requests,       \* the URLs requested with requests.get in this run, in order
    ts,             \* main's ts (optional)
    snapshots0,     \* SNAP_DIR as it was when this run started
    history0,       \* HISTORY_FILE as it was when this run started
    page,           \* the profile page handed to the extractor (extractor specification)
    extracted       \* what fetch_last_login returned for page (optional)

vars == <<pc, exit_reason, runs, now, dirs_exist, snapshots, history, players_status,
          target, guild_status, member_links, profile_base, focus, idx, rows,
          fetch_failed, requests, ts, snapshots0, history0, page, extracted>>

mainVars == <<pc, exit_reason, runs, now, dirs_exist, snapshots, history, players_status,
              target, guild_status, member_links, profile_base, focus, idx, rows,
              fetch_failed, requests, ts, snapshots0, history0>>

-----------------------------------------------------------------------------
(* Bounds of the model *)

MaxRuns == 2
MaxStep == 2
TicksPerSecond == 2
MaxEntries == 2
MaxAnchors == 2
MaxNodes == 5

-----------------------------------------------------------------------------
(* Strings *)

None == <<>>
Some(v) == <<v>>

Min(S) == CHOOSE x \in S : \A y \in S : x <= y
Max(S) == CHOOSE x \in S : \A y \in S : x >= y

Ch(s, i) == SubSeq(s, i, i)
Sub(s, a, b) == IF a > b THEN "" ELSE SubSeq(s, a, b)

Whitespace == {" ", "\t", "\n", "\r"}

\* str.strip()
Strip(s) ==
    LET keep == {i \in 1..Len(s) : Ch(s, i) \notin Whitespace}
    IN  IF keep = {} THEN "" ELSE SubSeq(s, Min(keep), Max(keep))

UpperAlpha == "ABCDEFGHIJKLMNOPQRSTUVWXYZ"
LowerAlpha == "abcdefghijklmnopqrstuvwxyz"

LowerCh(c) ==
    IF \E k \in 1..Len(UpperAlpha) : Ch(UpperAlpha, k) = c
    THEN Ch(LowerAlpha, CHOOSE k \in 1..Len(UpperAlpha) : Ch(UpperAlpha, k) = c)
    ELSE c

\* s holds word at position i, exactly
LitAt(s, i, word) ==
    /\ i >= 1
    /\ i + Len(word) - 1 <= Len(s)
    /\ SubSeq(s, i, i + Len(word) - 1) = word

\* s holds word (given in lower case) at position i, whatever the case (re.IGNORECASE)
LitAtIgnoreCase(s, i, word) ==
    /\ i >= 1
    /\ i + Len(word) - 1 <= Len(s)
    /\ \A k \in 1..Len(word) : LowerCh(Ch(s, i + k - 1)) = Ch(word, k)

\* the first position from i on whose character is not in set (Len(s) + 1 if none):
\* where a greedy c* that starts at i ends
RunEnd(s, i, set) ==
    Min({k \in i..(Len(s) + 1) : k = Len(s) + 1 \/ Ch(s, k) \notin set})

Contains(s, sub) == \E i \in 1..Len(s) : LitAt(s, i, sub)

\* str.replace(old, new) for a one-character old
RECURSIVE ReplaceCh(_, _, _)
ReplaceCh(s, old, new) ==
    IF Len(s) = 0 THEN ""
    ELSE (IF Ch(s, 1) = old THEN new ELSE Ch(s, 1)) \o ReplaceCh(Sub(s, 2, Len(s)), old, new)

Pad2(n) == IF n < 10 THEN "0" \o ToString(n) ELSE ToString(n)
Pad4(n) ==
    IF n < 10 THEN "000" \o ToString(n)
    ELSE IF n < 100 THEN "00" \o ToString(n)
    ELSE IF n < 1000 THEN "0" \o ToString(n)
    ELSE ToString(n)

-----------------------------------------------------------------------------
(* fetch_last_login: the extraction from a parsed profile page.            *)
(* A page is its text nodes in document order; pstart[i] is the first text *)
(* node after the opening tag of the parent of node i, which is where      *)
(* parent.find_all_next(string=True) starts.                               *)

\* re.compile(r"last\\s*login", re.IGNORECASE) matched at position i: in a raw
\* string, \\ is the two characters of the regex escape for ONE literal
\* backslash, and s* is then the letter s repeated.
LabelAt(s, i) ==
    /\ LitAtIgnoreCase(s, i, "last")
    /\ LitAt(s, i + 4, "\\")
    /\ LitAtIgnoreCase(s, RunEnd(s, i + 5, {"s", "S"}), "login")

\* pattern.search(text)
LabelSearch(s) == \E i \in 1..Len(s) : LabelAt(s, i)

\* re.split(r":\\s*", text, maxsplit=1): the separator is a colon, one literal
\* backslash and any number of the letter s (no IGNORECASE here)
SplitColon(text) ==
    LET hits == {i \in 1..Len(text) : LitAt(text, i, ":\\")}
    IN  IF hits = {} THEN <<text>>
        ELSE LET i == Min(hits)
                 k == RunEnd(text, i + 2, {"s"})
             IN  <<Sub(text, 1, i - 1), Sub(text, k, Len(text))>>

Rep(c, n) == IF n = 1 THEN c ELSE IF n = 2 THEN c \o c ELSE c \o c \o c \o c

\* re.search(r"\\d{1,2}/\\d{1,2}/\\d{2,4}", t): a literal backslash, then 1-2
\* letters d, a slash, and so on; the last group needs two letters d at least
SlashDateLike(t) ==
    \E i \in 1..Len(t) :
        /\ LitAt(t, i, "\\d")
        /\ \E a \in 1..2, b \in 1..2 :
              LitAt(t, i, "\\" \o Rep("d", a) \o "/\\" \o Rep("d", b) \o "/\\" \o Rep("d", 2))

\* re.search(r"\\d{4}-\\d{2}-\\d{2}", t)
IsoDateLike(t) == \E i \in 1..Len(t) : LitAt(t, i, "\\dddd-\\dd-\\dd")

FindAllNextLimit == 4

\* soup.find(string=pattern) / soup.find_all(text=pattern): the matching nodes
Matching(pg) == {e \in 1..Len(pg.nodes) : LabelSearch(pg.nodes[e])}

\* pass 1: the first matching node, split at the separator
Pass1(pg) ==
    LET found == Matching(pg)
    IN  IF found = {} THEN None
        ELSE LET text == Strip(pg.nodes[Min(found)])
                 parts == SplitColon(text)
             IN  IF Len(parts) = 2 /\ Strip(parts[2]) # ""
                 THEN Some(Strip(parts[2]))
                 ELSE None

\* pass 2, for one matching node el: the first of the (at most FindAllNextLimit)
\* text nodes after the parent's opening tag that is not blank, is not the label
\* itself and looks like a date
Pass2For(pg, el) ==
    LET first == pg.pstart[el]
        last == Min({first + FindAllNextLimit - 1, Len(pg.nodes)})
        label == Strip(pg.nodes[el])
        good == {k \in first..last :
                    LET t == Strip(pg.nodes[k])
                    IN  /\ t # ""
                        /\ t # label
                        /\ (SlashDateLike(t) \/ IsoDateLike(t))}
    IN  IF good = {} THEN None ELSE Some(Strip(pg.nodes[Min(good)]))

\* pass 2: the matching nodes in document order, until one gives a value
Pass2(pg) ==
    LET hits == {e \in Matching(pg) : Pass2For(pg, e) # None}
    IN  IF hits = {} THEN None ELSE Pass2For(pg, Min(hits))

LastStr(pg) ==
    LET direct == Pass1(pg)
    IN  IF direct # None THEN direct ELSE Pass2(pg)

-----------------------------------------------------------------------------
(* dtparser.parse(s, dayfirst=True).isoformat(), on the strings             *)
(*     D{1,2}/D{1,2}/DDDD  optionally followed by  [,] HH:MM:SS             *)
(* and on strings that hold no number at all, which dateutil rejects.       *)
(* The profile texts of this model give no other string to the parser.      *)

Digits == "0123456789"
DigitSet == {Ch(Digits, k) : k \in 1..Len(Digits)}
DigitVal(c) == (CHOOSE k \in 1..Len(Digits) : Ch(Digits, k) = c) - 1

RECURSIVE NumVal(_)
NumVal(s) ==
    IF Len(s) = 0 THEN 0
    ELSE 10 * NumVal(Sub(s, 1, Len(s) - 1)) + DigitVal(Ch(s, Len(s)))

IsLeap(y) == (y % 4 = 0 /\ y % 100 # 0) \/ y % 400 = 0
DaysIn(m, y) ==
    IF m = 2 THEN (IF IsLeap(y) THEN 29 ELSE 28)
    ELSE IF m \in {4, 6, 9, 11} THEN 30 ELSE 31

\* "HH:MM:SS" at the end of the string, after an optional comma and blanks
ParseClock(rest) ==
    LET r == Strip(IF LitAt(rest, 1, ",") THEN Sub(rest, 2, Len(rest)) ELSE rest)
    IN  IF r = "" THEN Some(<<0, 0, 0>>)
        ELSE IF /\ Len(r) = 8
                /\ \A k \in {1, 2, 4, 5, 7, 8} : Ch(r, k) \in DigitSet
                /\ Ch(r, 3) = ":" /\ Ch(r, 6) = ":"
             THEN LET h == NumVal(Sub(r, 1, 2))
                      m == NumVal(Sub(r, 4, 5))
                      sec == NumVal(Sub(r, 7, 8))
                  IN  IF h <= 23 /\ m <= 59 /\ sec <= 59 THEN Some(<<h, m, sec>>) ELSE None
             ELSE None

DateutilParse(s) ==
    LET e1 == RunEnd(s, 1, DigitSet)
        e2 == RunEnd(s, e1 + 1, DigitSet)
        e3 == RunEnd(s, e2 + 1, DigitSet)
    IN  IF /\ e1 - 1 \in 1..2 /\ LitAt(s, e1, "/")
           /\ e2 - e1 - 1 \in 1..2 /\ LitAt(s, e2, "/")
           /\ e3 - e2 - 1 = 4
        THEN LET v0 == NumVal(Sub(s, 1, e1 - 1))
                 v1 == NumVal(Sub(s, e1 + 1, e2 - 1))
                 year == NumVal(Sub(s, e2 + 1, e3 - 1))
                 \* _ymd.resolve_ymd with dayfirst: day first unless only the
                 \* first number can be the month
                 dayFirst == v0 > 12 \/ v1 <= 12
                 day == IF dayFirst THEN v0 ELSE v1
                 month == IF dayFirst THEN v1 ELSE v0
                 clock == ParseClock(Sub(s, e3, Len(s)))
             IN  IF /\ year >= 1
                    /\ month \in 1..12
                    /\ day >= 1 /\ day <= DaysIn(month, year)
                    /\ clock # None
                 THEN Some(Pad4(year) \o "-" \o Pad2(month) \o "-" \o Pad2(day) \o "T"
                           \o Pad2(clock[1][1]) \o ":" \o Pad2(clock[1][2]) \o ":"
                           \o Pad2(clock[1][3]))
                 ELSE None
        ELSE None

\* step 3 of fetch_last_login: the ISO value, when there is a raw one that parses
LastIso(last_str) == IF last_str # None THEN DateutilParse(last_str[1]) ELSE None

\* what fetch_last_login returns for a page that was fetched: (last_str, last_iso)
ExtractLastLogin(pg) ==
    LET last_str == LastStr(pg)
    IN  [raw |-> last_str, iso |-> LastIso(last_str)]

-----------------------------------------------------------------------------
(* URLs *)

GUILD_URL == "https://rubinot.com.br/?subtopic=guilds&page=view&GuildName=True+Knife"

\* scheme://netloc of an absolute URL (urlparse(url).scheme and .netloc)
Origin(url) ==
    LET sep == Min({i \in 1..Len(url) : LitAt(url, i, "://")})
        stop == RunEnd(url, sep + 3, DigitSet \cup {Ch(LowerAlpha, k) : k \in 1..26}
                                     \cup {Ch(UpperAlpha, k) : k \in 1..26} \cup {".", "-", ":"})
    IN  Sub(url, 1, stop - 1)

\* urljoin(base, href) for an absolute href, a query-only href ("?...") and an
\* absolute path ("/..."), the forms the anchors of this model have
UrlJoin(base, href) ==
    IF Contains(href, "://") THEN href
    ELSE IF LitAt(href, 1, "?")
         THEN Sub(base, 1, Min({i \in 1..(Len(base) + 1) :
                                   i = Len(base) + 1 \/ Ch(base, i) = "?"}) - 1) \o href
         ELSE Origin(base) \o href

\* the fallback template of get_guild_member_links
ProfileBase(guild_url) == Origin(guild_url) \o "/?subtopic=characters&name="

-----------------------------------------------------------------------------
(* sorted(): the order of Python strings, by code point *)

Ascii == " &+,-./0123456789:=?ABCDEFGHIJKLMNOPQRSTUVWXYZ\\_abcdefghijklmnopqrstuvwxyz"
CodeOf(c) == CHOOSE k \in 1..Len(Ascii) : Ch(Ascii, k) = c

StrLess(a, b) ==
    \E k \in 1..(Min({Len(a), Len(b)}) + 1) :
        /\ Sub(a, 1, k - 1) = Sub(b, 1, k - 1)
        /\ \/ k > Len(a) /\ k <= Len(b)
           \/ k <= Len(a) /\ k <= Len(b) /\ CodeOf(Ch(a, k)) < CodeOf(Ch(b, k))

RECURSIVE Sorted(_)
Sorted(S) ==
    IF S = {} THEN <<>>
    ELSE LET m == CHOOSE x \in S : \A y \in S \ {x} : StrLess(x, y)
         IN  <<m>> \o Sorted(S \ {m})

RECURSIVE SeqsUpTo(_, _)
SeqsUpTo(S, n) ==
    IF n = 0 THEN {<<>>}
    ELSE LET shorter == SeqsUpTo(S, n - 1)
         IN  shorter \cup {Append(q, x) : q \in shorter, x \in S}

-----------------------------------------------------------------------------
(* load_target_players *)

\* the elements a players.json list may hold: strings, and something that is not one
Entries ==
    { [is_str |-> TRUE, s |-> "Alice"],
      [is_str |-> TRUE, s |-> " Bob "],
      [is_str |-> TRUE, s |-> "  "],
      [is_str |-> FALSE, s |-> ""] }

\* PLAYERS_FILE: absent, not readable as JSON, or a JSON list (a players.json that
\* holds a JSON value other than a list is outside the model)
PlayersFiles ==
    { [kind |-> "missing", entries |-> <<>>], [kind |-> "unreadable", entries |-> <<>>] }
    \cup { [kind |-> "list", entries |-> es] : es \in SeqsUpTo(Entries, MaxEntries) }

\* [p.strip() for p in players if isinstance(p, str) and p.strip()], as a set
LoadTargetPlayers(file) ==
    { Strip(file.entries[k].s) :
        k \in {j \in 1..Len(file.entries) :
                  file.entries[j].is_str /\ Strip(file.entries[j].s) # ""} }

\* what load_target_players does with a file: it raises, or returns the set.
\* status is the fact about the file, whatever the code makes of it.
LoadResult(file) ==
    [status |-> file.kind,
     raised |-> file.kind # "list",
     error |-> IF file.kind = "missing" THEN "FileNotFoundError" ELSE "JSONDecodeError",
     target |-> IF file.kind = "list" THEN LoadTargetPlayers(file) ELSE {}]

LoadResults == {LoadResult(file) : file \in PlayersFiles}

\* "if not target" of main
TargetIsEmptyNever(tg) == FALSE
TargetIsEmpty(tg) == tg = {}

-----------------------------------------------------------------------------
(* get_guild_member_links *)

Anchors ==
    { [text |-> " Alice ", href |-> "?subtopic=characters&name=Alice"],
      [text |-> "Bob", href |-> "/?subtopic=characters&name=Bob"],
      [text |-> "Bob", href |-> "https://rubinot.com.br/?subtopic=characters&name=Alice"],
      [text |-> "Carol", href |-> "?subtopic=characters&name=Carol"],
      [text |-> " ", href |-> "?subtopic=characters&name=Dave"],
      [text |-> "Guilds", href |-> "?subtopic=guilds"] }

\* what requests.get gives: a network fault, or a response with a status and a body
GuildResponses ==
    { [kind |-> "fault", ok |-> FALSE, anchors |-> <<>>] }
    \cup { [kind |-> "http", ok |-> ok, anchors |-> as] :
             ok \in BOOLEAN, as \in SeqsUpTo(Anchors, MaxAnchors) }

\* resp.raise_for_status() raises
RaiseForStatusNever(resp) == FALSE
RaiseForStatus(resp) == ~resp.ok

EmptyLinks == [n \in {} |-> ""]

\* the loop over soup.select("a[href*='subtopic=characters']"): the last anchor
\* of a name wins
MemberLinks(guild_url, anchors) ==
    LET used == {k \in 1..Len(anchors) :
                    /\ Contains(anchors[k].href, "subtopic=characters")
                    /\ Strip(anchors[k].text) # ""
                    /\ anchors[k].href # ""}
        names == {Strip(anchors[k].text) : k \in used}
    IN  [n \in names |->
            UrlJoin(guild_url, anchors[Max({k \in used : Strip(anchors[k].text) = n})].href)]

\* what get_guild_member_links does with the answer to its GET: it raises, or
\* returns (member_links, None) or ({}, profile_base). status is the fact about
\* the answer, whatever the code makes of it.
GetGuildMemberLinksResult(guild_url, resp) ==
    LET raised == resp.kind = "fault" \/ RaiseForStatus(resp)
        links == IF raised THEN EmptyLinks ELSE MemberLinks(guild_url, resp.anchors)
    IN  [status |-> IF resp.kind = "fault" THEN "fault"
                    ELSE IF resp.ok THEN "ok" ELSE "http_error",
         raised |-> raised,
         error |-> IF resp.kind = "fault" THEN "ConnectionError" ELSE "HTTPError",
         member_links |-> links,
         profile_base |-> IF ~raised /\ DOMAIN links = {}
                          THEN Some(ProfileBase(guild_url)) ELSE None]

GuildResults == {GetGuildMemberLinksResult(GUILD_URL, resp) : resp \in GuildResponses}

-----------------------------------------------------------------------------
(* main: the focus *)

\* target & guild_members
FocusNamesAllMembers(tg, links) == DOMAIN links
FocusNames(tg, links) == tg \cap DOMAIN links

\* "if guild_members: focus = sorted(...) else: abort"
FocusSelectionAllTargets(tg, links) ==
    IF DOMAIN links # {}
    THEN [abort |-> FALSE, focus |-> Sorted(FocusNames(tg, links))]
    ELSE [abort |-> FALSE, focus |-> Sorted(tg)]
FocusSelection(tg, links) ==
    IF DOMAIN links # {}
    THEN [abort |-> FALSE, focus |-> Sorted(FocusNames(tg, links))]
    ELSE [abort |-> TRUE, focus |-> <<>>]

\* member_links.get(player)
Get(links, player) == IF player \in DOMAIN links THEN Some(links[player]) ELSE None

-----------------------------------------------------------------------------
(* main: the profile loop *)

Page(ns, ps) == [nodes |-> ns, pstart |-> ps]
EmptyPage == Page(<<>>, <<>>)

\* the profile pages of the runs of main
MainPages ==
    { Page(<<"Name: Alice", "Last login: 24/04/2024, 15:28:07">>, <<1, 2>>),
      Page(<<"last\\login:\\24/04/2024, 15:28:07">>, <<1>>),
      Page(<<" Last\\slogin ", "\\dd/\\dd/\\dddd">>, <<1, 2>>) }

ProfileResponses ==
    { [kind |-> "fault", ok |-> FALSE, page |-> EmptyPage],
      [kind |-> "http", ok |-> FALSE, page |-> EmptyPage] }
    \cup { [kind |-> "http", ok |-> TRUE, page |-> pg] : pg \in MainPages }

\* "return last_str, last_iso"
FetchLastLoginSwapped(pg) ==
    LET got == ExtractLastLogin(pg)
    IN  [raw |-> got.iso, iso |-> got.raw]
FetchLastLogin(pg) == ExtractLastLogin(pg)

\* "try: fetch_last_login(profile_url) except Exception": the GET failed (the
\* fact about the answer), the call raised, and what it returned if it did not
TryFetchLastLogin(resp) ==
    LET raised == resp.kind = "fault" \/ RaiseForStatus(resp)
    IN  [failed |-> resp.kind = "fault" \/ ~resp.ok,
         raised |-> raised,
         res |-> IF raised THEN [raw |-> None, iso |-> None] ELSE FetchLastLogin(resp.page)]

ProfileResults == {TryFetchLastLogin(resp) : resp \in ProfileResponses}

Row(player, url, res) ==
    [player |-> player, profile_url |-> url,
     last_login_raw |-> res.raw, last_login_iso |-> res.iso]

\* the body of the for loop after the URL was found: rows once fetch_last_login
\* returned res, or raised
NextRowsSkipRaised(rs, player, url, raised, res) ==
    IF raised THEN rs ELSE Append(rs, Row(player, url, res))
NextRows(rs, player, url, raised, res) ==
    Append(rs, Row(player, url, IF raised THEN [raw |-> None, iso |-> None] ELSE res))

-----------------------------------------------------------------------------
(* persistence *)

\* datetime.utcnow().isoformat(timespec="seconds") + "Z" at tick t: the instant
\* cut to whole seconds (the runs of the model all fall in one minute)
FormatTs(t) == "2026-01-01T00:00:" \o Pad2(t \div TicksPerSecond) \o "Z"

\* the file name of save_snapshot
SnapshotName(collection_ts) == "snapshot_" \o ReplaceCh(collection_ts, ":", "-") \o ".json"

\* save_snapshot: open(fname, "w") and json.dump. A write that fails, here and in
\* append_history, is open() raising: the file is left as it was.
SaveSnapshotFiles(files, collection_ts, rs) ==
    [f \in DOMAIN files \cup {SnapshotName(collection_ts)} |->
        IF f = SnapshotName(collection_ts)
        THEN [timestamp |-> collection_ts, guild_url |-> GUILD_URL, players |-> rs]
        ELSE files[f]]

Header == <<"collected_at", "player", "profile_url", "last_login_raw", "last_login_iso">>

\* csv.writer writes None as the empty field
CsvCell(opt) == IF opt = None THEN "" ELSE opt[1]

CsvRow(collection_ts, r) ==
    <<collection_ts, r.player, r.profile_url, CsvCell(r.last_login_raw), CsvCell(r.last_login_iso)>>

\* "if not file_exists" of append_history
HeaderNeededAlways(file_exists) == TRUE
HeaderNeeded(file_exists) == ~file_exists

\* append_history: open(HISTORY_FILE, "a"), the header, one row per element of rows
AppendHistoryFile(file, collection_ts, rs) ==
    Some((IF file = None THEN <<>> ELSE file[1])
         \o (IF HeaderNeeded(file # None) THEN <<Header>> ELSE <<>>)
         \o [k \in 1..Len(rs) |-> CsvRow(collection_ts, rs[k])])

-----------------------------------------------------------------------------
(* main() *)

NoSnapshots == [f \in {} |-> 0]

Init ==
    /\ pc = "idle"
    /\ exit_reason = "none"
    /\ runs = 0
    /\ now = 0
    /\ dirs_exist = FALSE
    /\ snapshots = NoSnapshots
    /\ history = None
    /\ players_status = "unread"
    /\ target = {}
    /\ guild_status = "none"
    /\ member_links = EmptyLinks
    /\ profile_base = None
    /\ focus = <<>>
    /\ idx = 1
    /\ rows = <<>>
    /\ fetch_failed = <<>>
    /\ requests = <<>>
    /\ ts = None
    /\ snapshots0 = NoSnapshots
    /\ history0 = None
    /\ page = EmptyPage
    /\ extracted = None

\* main is entered: ensure_dirs(); the locals of the run are fresh
StartRun ==
    /\ pc \in {"idle", "exited"}
    /\ runs < MaxRuns
    /\ pc' = "load"
    /\ exit_reason' = "running"
    /\ runs' = runs + 1
    /\ dirs_exist' = TRUE
    /\ players_status' = "unread"
    /\ target' = {}
    /\ guild_status' = "none"
    /\ member_links' = EmptyLinks
    /\ profile_base' = None
    /\ focus' = <<>>
    /\ idx' = 1
    /\ rows' = <<>>
    /\ fetch_failed' = <<>>
    /\ requests' = <<>>
    /\ ts' = None
    /\ snapshots0' = snapshots
    /\ history0' = history
    /\ UNCHANGED <<now, snapshots, history, page, extracted>>

\* target = load_target_players(); if not target: return
Load ==
    /\ pc = "load"
    /\ \E got \in LoadResults :
        /\ players_status' = got.status
        /\ IF got.raised
           THEN pc' = "exited" /\ exit_reason' = got.error /\ target' = target
           ELSE /\ target' = got.target
                /\ IF TargetIsEmpty(target')
                   THEN pc' = "exited" /\ exit_reason' = "empty_target_list"
                   ELSE pc' = "guild" /\ exit_reason' = exit_reason
    /\ UNCHANGED <<runs, now, dirs_exist, snapshots, history, guild_status, member_links,
                   profile_base, focus, idx, rows, fetch_failed, requests, ts,
                   snapshots0, history0, page, extracted>>

\* member_links, profile_base = get_guild_member_links(GUILD_URL)
GetGuildMemberLinks ==
    /\ pc = "guild"
    /\ requests' = Append(requests, GUILD_URL)
    /\ \E got \in GuildResults :
        /\ guild_status' = got.status
        /\ IF got.raised
           THEN /\ pc' = "exited" /\ exit_reason' = got.error
                /\ UNCHANGED <<member_links, profile_base>>
           ELSE /\ member_links' = got.member_links
                /\ profile_base' = got.profile_base
                /\ pc' = "focus" /\ exit_reason' = exit_reason
    /\ UNCHANGED <<runs, now, dirs_exist, snapshots, history, players_status, target,
                   focus, idx, rows, fetch_failed, ts, snapshots0, history0, page, extracted>>

\* the two guards on member_links, the focus, "if not focus: return"
SelectFocus ==
    /\ pc = "focus"
    /\ IF DOMAIN member_links = {} /\ profile_base = None
       THEN pc' = "exited" /\ exit_reason' = "no_members" /\ focus' = focus
       ELSE IF FocusSelection(target, member_links).abort
       THEN pc' = "exited" /\ exit_reason' = "membership_unconfirmed" /\ focus' = focus
       ELSE /\ focus' = FocusSelection(target, member_links).focus
            /\ IF focus' = <<>>
               THEN pc' = "exited" /\ exit_reason' = "no_focus"
               ELSE pc' = "loop" /\ exit_reason' = exit_reason
    /\ idx' = 1
    /\ UNCHANGED <<runs, now, dirs_exist, snapshots, history, players_status, target,
                   guild_status, member_links, profile_base, rows, fetch_failed, requests,
                   ts, snapshots0, history0, page, extracted>>

\* one turn of "for player in focus"
FetchProfile ==
    /\ pc = "loop"
    /\ idx <= Len(focus)
    /\ LET player == focus[idx]
           profile_url == Get(member_links, player)
       IN  IF profile_url = None \/ profile_url = Some("")
           THEN UNCHANGED <<rows, fetch_failed, requests>>
           ELSE \E got \in ProfileResults :
                   /\ requests' = Append(requests, profile_url[1])
                   /\ rows' = NextRows(rows, player, profile_url[1], got.raised, got.res)
                   /\ fetch_failed' = Append(fetch_failed, got.failed)
    /\ idx' = idx + 1
    /\ pc' = IF idx = Len(focus) THEN "persist" ELSE "loop"
    /\ UNCHANGED <<exit_reason, runs, now, dirs_exist, snapshots, history, players_status,
                   target, guild_status, member_links, profile_base, focus, ts,
                   snapshots0, history0, page, extracted>>

\* ts = utcnow...; save_snapshot(ts, rows): the file is written, or open() raises
SaveSnapshot ==
    /\ pc = "persist"
    /\ \E step \in 1..MaxStep, written \in BOOLEAN :
        /\ now' = now + step
        /\ ts' = Some(FormatTs(now'))
        /\ IF written
           THEN /\ snapshots' = SaveSnapshotFiles(snapshots, ts'[1], rows)
                /\ pc' = "append" /\ exit_reason' = exit_reason
           ELSE /\ snapshots' = snapshots
                /\ pc' = "exited" /\ exit_reason' = "snapshot_write_error"
    /\ UNCHANGED <<runs, dirs_exist, history, players_status, target, guild_status,
                   member_links, profile_base, focus, idx, rows, fetch_failed, requests,
                   snapshots0, history0, page, extracted>>

\* append_history(ts, rows) and the summary line: the rows are appended, or open() raises
AppendHistory ==
    /\ pc = "append"
    /\ \E written \in BOOLEAN :
        IF written
        THEN /\ history' = AppendHistoryFile(history, ts[1], rows)
             /\ pc' = "exited" /\ exit_reason' = "ok"
        ELSE /\ history' = history
             /\ pc' = "exited" /\ exit_reason' = "history_write_error"
    /\ UNCHANGED <<runs, now, dirs_exist, snapshots, players_status, target, guild_status,
                   member_links, profile_base, focus, idx, rows, fetch_failed, requests,
                   ts, snapshots0, history0, page, extracted>>

Next ==
    \/ StartRun
    \/ Load
    \/ GetGuildMemberLinks
    \/ SelectFocus
    \/ FetchProfile
    \/ SaveSnapshot
    \/ AppendHistory

Spec == Init /\ [][Next]_vars

-----------------------------------------------------------------------------
(* The extractor alone: fetch_last_login on the parsed page of one answer *)

Texts ==
    { "Last login: 24/04/2024, 15:28:07",
      "last\\login:\\24/04/2024, 15:28:07",
      "LAST\\LOGIN:\\04/24/2024",
      " Last\\sslogin:\\s never ",
      "last\\login",
      "\\dd/\\dd/\\dddd",
      "  " }

\* every text in an element of its own (table cells), or all of them the
\* children of one element
AllPages ==
    { Page(ns, [i \in 1..Len(ns) |-> IF inline THEN 1 ELSE i]) :
        ns \in SeqsUpTo(Texts, MaxNodes), inline \in BOOLEAN }

InitExtract ==
    /\ pc = "idle"
    /\ exit_reason = "none"
    /\ runs = 0
    /\ now = 0
    /\ dirs_exist = FALSE
    /\ snapshots = NoSnapshots
    /\ history = None
    /\ players_status = "unread"
    /\ target = {}
    /\ guild_status = "none"
    /\ member_links = EmptyLinks
    /\ profile_base = None
    /\ focus = <<>>
    /\ idx = 1
    /\ rows = <<>>
    /\ fetch_failed = <<>>
    /\ requests = <<>>
    /\ ts = None
    /\ snapshots0 = NoSnapshots
    /\ history0 = None
    /\ page \in AllPages
    /\ extracted = None

Extract ==
    /\ extracted = None
    /\ extracted' = Some(FetchLastLogin(page))
    /\ UNCHANGED <<mainVars, page>>

NextExtract == Extract

SpecExtract == InitExtract /\ [][NextExtract]_vars

-----------------------------------------------------------------------------
(* Properties *)

HistoryRows(h) == IF h = None THEN <<>> ELSE h[1]

IsPrefix(a, b) == Len(a) <= Len(b) /\ SubSeq(b, 1, Len(a)) = a

\* the run got as far as "# 5) Persistencia"
ReachedPersistence ==
    \/ pc \in {"persist", "append"}
    \/ pc = "exited" /\ exit_reason \in {"ok", "snapshot_write_error", "history_write_error"}

\* the snapshot files this run created or changed
WrittenSnapshots ==
    {f \in DOMAIN snapshots : f \notin DOMAIN snapshots0 \/ snapshots[f] # snapshots0[f]}

\* the rows this run added to the history log
AddedHistoryRows ==
    SubSeq(HistoryRows(history), Len(HistoryRows(history0)) + 1, Len(HistoryRows(history)))

FilesUntouched == snapshots = snapshots0 /\ history = history0

\* C1: every record of the result list, of the snapshot this run writes and of
\* the history rows it adds is of a player that is in the target set and a key
\* of member_links
C1_IntersectionOnly ==
    LET Focused(name) == name \in target /\ name \in DOMAIN member_links
    IN  /\ \A k \in 1..Len(rows) : Focused(rows[k].player)
        /\ \A f \in WrittenSnapshots :
              \A k \in 1..Len(snapshots[f].players) : Focused(snapshots[f].players[k].player)
        /\ \A j \in 1..Len(AddedHistoryRows) :
              AddedHistoryRows[j] = Header \/ Focused(AddedHistoryRows[j][2])

\* a finished run with records, a target that is no member and a member that is no target
C1_Witness ==
    /\ pc = "exited" /\ exit_reason = "ok"
    /\ rows # <<>>
    /\ target \ DOMAIN member_links # {}
    /\ DOMAIN member_links \ target # {}
    /\ WrittenSnapshots # {}
    /\ Len(AddedHistoryRows) > 1

\* C2: an empty member_links with a fallback template ends the run at the
\* focus step: only the guild page was requested, no file was written
C2_FallbackAborts ==
    (guild_status = "ok" /\ DOMAIN member_links = {} /\ profile_base # None)
    => /\ pc \in {"focus", "exited"}
       /\ pc = "exited" => exit_reason = "membership_unconfirmed"
       /\ requests = <<GUILD_URL>>
       /\ rows = <<>>
       /\ FilesUntouched

\* the abort, in a run that found the files of an earlier run
C2_Witness ==
    /\ pc = "exited" /\ exit_reason = "membership_unconfirmed"
    /\ profile_base = Some("https://rubinot.com.br/?subtopic=characters&name=")
    /\ history # None /\ DOMAIN snapshots # {}

\* C3: a failed GET of the guild page (network fault or error status) ends the
\* run there: no profile was requested and the files are those of the start
C3_GuildFetchFailureAborts ==
    guild_status \in {"fault", "http_error"}
    => /\ pc = "exited"
       /\ exit_reason \in {"ConnectionError", "HTTPError"}
       /\ guild_status = "fault" <=> exit_reason = "ConnectionError"
       /\ requests = <<GUILD_URL>>
       /\ FilesUntouched

\* an error status, in a run that found the files of an earlier run
C3_Witness ==
    /\ guild_status = "http_error" /\ pc = "exited"
    /\ history # None /\ DOMAIN snapshots # {}

\* C4: in every state, every record of every snapshot file has a row in the
\* history log with the snapshot's timestamp and the same four values
C4_SnapshotRecordsInHistory ==
    \A f \in DOMAIN snapshots :
        \A k \in 1..Len(snapshots[f].players) :
            \E j \in 1..Len(HistoryRows(history)) :
                LET row == HistoryRows(history)[j]
                    rec == snapshots[f].players[k]
                IN  /\ row[1] = snapshots[f].timestamp
                    /\ row[2] = rec.player
                    /\ row[3] = rec.profile_url
                    /\ (IF row[4] = "" THEN None ELSE Some(row[4])) = rec.last_login_raw
                    /\ (IF row[5] = "" THEN None ELSE Some(row[5])) = rec.last_login_iso

\* what C5 says of the records: one per loop turn, absent values after a failed
\* fetch, no exit once a profile was requested, and at persistence one record per
\* name of target & member_links in sorted order
C5_Records ==
    /\ pc = "loop" => idx <= Len(focus)
    /\ pc \in {"loop", "persist"} => Len(rows) = idx - 1
    /\ Len(fetch_failed) = Len(rows)
    /\ \A k \in 1..Len(rows) :
          /\ k <= Len(focus) /\ rows[k].player = focus[k]
          /\ rows[k].profile_url = member_links[rows[k].player]
          /\ k <= Len(fetch_failed) /\ fetch_failed[k]
             => rows[k].last_login_raw = None /\ rows[k].last_login_iso = None
    /\ Len(requests) >= 2 => pc = "loop" \/ ReachedPersistence
    /\ ReachedPersistence
       => /\ {rows[k].player : k \in 1..Len(rows)} = target \cap DOMAIN member_links
          /\ Len(rows) = Cardinality(target \cap DOMAIN member_links)
          /\ \A k \in 1..(Len(rows) - 1) : StrLess(rows[k].player, rows[k + 1].player)

\* C5 as stated: ... and no URL is requested twice
C5_EachUrlAtMostOnce ==
    /\ C5_Records
    /\ \A i, j \in 1..Len(requests) : i # j => requests[i] # requests[j]

\* C5 as amended: ... and there is exactly one GET per record, in the order of
\* the records, after the GET of the guild page
C5_OneRequestPerRecord ==
    /\ C5_Records
    /\ rows # <<>> => Len(requests) = 1 + Len(rows)
    /\ \A k \in 1..Len(rows) : k + 1 <= Len(requests) /\ requests[k + 1] = rows[k].profile_url

\* a finished run of two players, the first fetch failed, the second gave a value
C5_Witness ==
    /\ pc = "exited" /\ exit_reason = "ok"
    /\ Len(rows) = 2 /\ Len(fetch_failed) = 2
    /\ fetch_failed[1] /\ ~fetch_failed[2]
    /\ rows[1].last_login_raw = None
    /\ rows[2].last_login_raw # None

\* C6: a players file that is missing, unreadable or gives the empty set ends
\* the run before any request, and no file is written
C6_BadTargetListAborts ==
    (players_status \in {"missing", "unreadable"} \/ (players_status = "list" /\ target = {}))
    => /\ pc = "exited"
       /\ exit_reason \in {"FileNotFoundError", "JSONDecodeError", "empty_target_list"}
       /\ players_status = "list" <=> exit_reason = "empty_target_list"
       /\ requests = <<>>
       /\ FilesUntouched

\* a list that gives the empty set, in a run that found the files of an earlier run
C6_Witness ==
    /\ players_status = "list" /\ target = {} /\ pc = "exited"
    /\ history # None /\ DOMAIN snapshots # {}

\* C7: a save_snapshot that succeeds creates a file that was not there, and no
\* step changes or removes a snapshot file
C7_SnapshotWriteOnce ==
    [][ /\ \A f \in DOMAIN snapshots : f \in DOMAIN snapshots' /\ snapshots'[f] = snapshots[f]
        /\ (pc = "persist" /\ pc' = "append")
           => DOMAIN snapshots' = DOMAIN snapshots \cup {SnapshotName(ts'[1])}
              /\ SnapshotName(ts'[1]) \notin DOMAIN snapshots ]_vars

LabelledAt(s, i) ==
    /\ LitAtIgnoreCase(s, i, "last")
    /\ LitAtIgnoreCase(s, RunEnd(s, i + 4, Whitespace), "login")

Labelled(s) == \E i \in 1..Len(s) : LabelledAt(s, i)

\* the trimmed text after the first colon
AfterFirstColon(s) ==
    LET colons == {i \in 1..Len(s) : Ch(s, i) = ":"}
    IN  IF colons = {} THEN "" ELSE Strip(Sub(s, Min(colons) + 1, Len(s)))

\* C9: when the first labelled text node of the page is "<label>: <value>", the
\* raw value is the trimmed text after the first colon and the normalized value
\* its day-first parse; "Last login: 24/04/2024, 15:28:07" gives
\* "24/04/2024, 15:28:07" and 2024-04-24T15:28:07
C9_LabelValueExtraction ==
    extracted # None
    => LET labelled == {e \in 1..Len(page.nodes) : Labelled(page.nodes[e])}
       IN  /\ (labelled # {} /\ AfterFirstColon(page.nodes[Min(labelled)]) # "")
              => /\ extracted[1].raw = Some(AfterFirstColon(page.nodes[Min(labelled)]))
                 /\ extracted[1].iso = DateutilParse(AfterFirstColon(page.nodes[Min(labelled)]))
           /\ page.nodes = <<"Last login: 24/04/2024, 15:28:07">>
              => extracted[1] = [raw |-> Some("24/04/2024, 15:28:07"),
                                 iso |-> Some("2024-04-24T15:28:07")]

\* C10: in every record (of the result list, of the snapshots, of the history
\* log) a normalized value comes with a raw value, and once a profile was
\* requested the run goes on to persistence
C10_IsoOnlyWithRaw ==
    /\ \A k \in 1..Len(rows) :
          rows[k].last_login_iso # None => rows[k].last_login_raw # None
    /\ \A f \in DOMAIN snapshots :
          \A k \in 1..Len(snapshots[f].players) :
              snapshots[f].players[k].last_login_iso # None
              => snapshots[f].players[k].last_login_raw # None
    /\ \A j \in 1..Len(HistoryRows(history)) :
          HistoryRows(history)[j][5] # "" => HistoryRows(history)[j][4] # ""
    /\ Len(rows) >= 1 => pc = "loop" \/ ReachedPersistence

\* the log holds the three outcomes: nothing (after a failed fetch), a raw
\* value that does not parse, a raw value with its normalized value
C10_Witness ==
    /\ pc = "exited" /\ exit_reason = "ok"
    /\ \E k \in 1..Len(rows) : fetch_failed[k] /\ rows[k].last_login_raw = None
    /\ \E j \in 2..Len(HistoryRows(history)) :
          HistoryRows(history)[j][4] # "" /\ HistoryRows(history)[j][5] = ""
    /\ \E j \in 2..Len(HistoryRows(history)) :
          HistoryRows(history)[j][4] = "24/04/2024, 15:28:07"
          /\ HistoryRows(history)[j][5] = "2024-04-24T15:28:07"

====
